---------------------------- MODULE Spec2Model ----------------------------
(***************************************************************************)
(* toy_pool: a pool whose items are reference-counted through strong       *)
(* Handles.  Handles report their destruction through a single-threaded    *)
(* FIFO queue (smpsc); the pool applies the queued messages when the       *)
(* owner calls sync_refcounts_and_invalidate.                              *)
(*                                                                         *)
(* Slots are 0-based as in the source; entry of slot s is entries[s + 1].  *)
(***************************************************************************)
EXTENDS Naturals, Sequences, FiniteSets, Bags, TLC

(***************************************************************************)
(* Bounds of the model.                                                    *)
(***************************************************************************)
\* calls of Pool::add in one run
MaxAdds == 3
\* strong Handles outstanding at the same time
MaxHandles == 2
\* messages waiting in the queue
MaxQueue == 2
\* messages the caller's Handles send to the queue in one run
MaxSends == 2

(***************************************************************************)
(* Program constants.                                                      *)
(***************************************************************************)
\* type Gen = NonZeroU32: the width of a generation
GenBits == 32
\* type RefCount = u16: the largest reference count
RefCountMax == 65535
\* Option::None of PoolEntry::data; the items are 1, 2, ...
NoItem == 0

\* whether g is u32::MAX, 2^32 - 1, tested by halves of 16 bits: the number itself is
\* beyond the integers of the model checker
IsGenMax(g) ==
    LET half == 2 ^ (GenBits \div 2)
    IN  (g \div half = half - 1) /\ (g % half = half - 1)

\* no panic has happened
NoFatal == "none"

VARIABLES
    entries,    \* Pool::entries: Seq of [data, gen, ref_count]
    queue,      \* the VecDeque shared by Pool::rx, Pool::tx and every Handle::sender
    handles,    \* bag of the strong Handles alive outside the pool: [slot, gen]
    weaks,      \* set of the WeakHandles issued so far: [slot, gen] (Copy, never destroyed)
    debug,      \* build profile: TRUE = overflow checks and debug assertions on
    fatal,      \* NoFatal, or the message of the panic that ended the run
    op,         \* name of the last operation called
    resync,     \* whether the last operation was a sync called right after a sync
    ret,        \* what the last operation returned
    applied,    \* when the last operation was a sync: the messages it applied and the
                \* items it cleared, in order
    allocs,     \* every successful add so far, in order: [slot, gen, item]
    sent,       \* number of messages sent to the queue so far
    inside      \* for every entry, the Handles that the item stored in it owns (a Seq)

vars == <<entries, queue, handles, weaks, debug, fatal, op, resync, ret, applied, allocs, sent, inside>>

(***************************************************************************)
(* Values.                                                                 *)
(***************************************************************************)
\* enum Message { New(Slot), Drop(Slot) }
Message(kind, slot) == [kind |-> kind, slot |-> slot]

\* struct PoolEntry { data, gen, ref_count }
PoolEntry(data, gen, ref_count) == [data |-> data, gen |-> gen, ref_count |-> ref_count]

\* struct Handle { slot, gen, sender }: the sender is the one shared queue
Handle(slot, gen) == [slot |-> slot, gen |-> gen]

\* struct WeakHandle { slot, gen }
WeakHandle(slot, gen) == [slot |-> slot, gen |-> gen]

\* return values, one shape for all operations
RetUnit == [tag |-> "unit", slot |-> 0, gen |-> 0, item |-> NoItem]
RetNone == [tag |-> "None", slot |-> 0, gen |-> 0, item |-> NoItem]
RetHandle(h) == [tag |-> "Handle", slot |-> h.slot, gen |-> h.gen, item |-> NoItem]
RetWeak(w) == [tag |-> "Weak", slot |-> w.slot, gen |-> w.gen, item |-> NoItem]
RetItem(x) == [tag |-> "Item", slot |-> 0, gen |-> 0, item |-> x]
RetBool(b) == [tag |-> IF b THEN "true" ELSE "false", slot |-> 0, gen |-> 0, item |-> NoItem]
RetPair(x, y) == [tag |-> "Pair", slot |-> 0, gen |-> 0, item |-> x, item1 |-> y]

\* Slot::to_usize, then Vec indexing: the entry of a slot
EntryAt(es, slot) == es[slot + 1]

\* whether Vec indexing with this slot is in range
InRange(es, slot) == slot < Len(es)

(***************************************************************************)
(* smpsc: the queue.                                                       *)
(***************************************************************************)
\* a send that puts the message at the head of the queue
send_front(q, item) == <<item>> \o q

\* Sender::send: push_back
send(q, item) == Append(q, item)

\* a recv that pops the newest message (LIFO)
recv_lifo(q) == [mes |-> q[Len(q)], rest |-> SubSeq(q, 1, Len(q) - 1)]

\* Receiver::recv on a non-empty queue: pop_front
recv(q) == [mes |-> Head(q), rest |-> Tail(q)]


(***************************************************************************)
(* Reference counter synchronization.                                      *)
(***************************************************************************)
\* `e.ref_count += 1` on a u16: an overflow panics with overflow checks and wraps without
inc_ref_count(rc, dbg) ==
    IF rc = RefCountMax
    THEN [val |-> IF dbg THEN rc ELSE 0,
          fatal |-> IF dbg THEN "attempt to add with overflow" ELSE NoFatal]
    ELSE [val |-> rc + 1, fatal |-> NoFatal]

\* `entry.ref_count -= 1` on a u16: an underflow panics with overflow checks and wraps without
dec_ref_count(rc, dbg) ==
    IF rc = 0
    THEN [val |-> IF dbg THEN rc ELSE RefCountMax,
          fatal |-> IF dbg THEN "attempt to subtract with overflow" ELSE NoFatal]
    ELSE [val |-> rc - 1, fatal |-> NoFatal]

\* Pool::invalidate_unreferenced: [entries, cleared (the bool it returns), fatal]
invalidate_unreferenced(es, slot) ==
    IF ~InRange(es, slot)
    THEN [entries |-> es, cleared |-> FALSE, fatal |-> "index out of bounds"]
    ELSE IF EntryAt(es, slot).ref_count # 0
    THEN [entries |-> es, cleared |-> FALSE, fatal |-> "assertion failed: e.ref_count == 0"]
    ELSE IF EntryAt(es, slot).data = NoItem
    THEN [entries |-> es, cleared |-> FALSE, fatal |-> NoFatal]
    ELSE [entries |-> [es EXCEPT ![slot + 1].data = NoItem],
          cleared |-> TRUE, fatal |-> NoFatal]

\* the queue after the Handles hs (a Seq) were dropped, first to last
RECURSIVE drop_all(_, _)
drop_all(q, hs) ==
    IF hs = <<>> THEN q
    ELSE drop_all(send(q, Message("Drop", Head(hs).slot)), Tail(hs))

\* one entry of the log of a sync
Applied(kind, slot, rc) == [kind |-> kind, slot |-> slot, rc |-> rc]

\* Pool::sync_refcounts, one turn of its loop on a non-empty queue, with the on_zero of
\* sync_refcounts_and_invalidate.  st = [entries, queue, applied, fatal, inside]
\* `e.data = None` drops the item, and with it the Handles the item owns: each sends its
\* Drop to the queue the loop is reading
SyncStep(st, dbg) ==
    LET r == recv(st.queue)
        mes == r.mes
        slot == mes.slot
    IN  IF ~InRange(st.entries, slot)
        THEN [st EXCEPT !.queue = r.rest, !.fatal = "index out of bounds"]
        ELSE IF mes.kind = "New"
        THEN LET n == inc_ref_count(EntryAt(st.entries, slot).ref_count, dbg)
             IN  IF n.fatal # NoFatal
                 THEN [st EXCEPT !.queue = r.rest, !.fatal = n.fatal]
                 ELSE [entries |-> [st.entries EXCEPT ![slot + 1].ref_count = n.val],
                       queue |-> r.rest,
                       applied |-> Append(st.applied, Applied("New", slot, n.val)),
                       fatal |-> NoFatal,
                       inside |-> st.inside]
        ELSE LET n == dec_ref_count(EntryAt(st.entries, slot).ref_count, dbg)
                 es == [st.entries EXCEPT ![slot + 1].ref_count = n.val]
                 log == Append(st.applied, Applied("Drop", slot, n.val))
             IN  IF n.fatal # NoFatal
                 THEN [st EXCEPT !.queue = r.rest, !.fatal = n.fatal]
                 ELSE IF n.val = 0
                 THEN LET z == invalidate_unreferenced(es, slot)
                      IN  [entries |-> z.entries,
                           queue |-> IF z.cleared
                                     THEN drop_all(r.rest, st.inside[slot + 1])
                                     ELSE r.rest,
                           applied |-> IF z.cleared
                                       THEN Append(log, Applied("Clear", slot, 0))
                                       ELSE log,
                           fatal |-> z.fatal,
                           inside |-> IF z.cleared
                                      THEN [st.inside EXCEPT ![slot + 1] = <<>>]
                                      ELSE st.inside]
                 ELSE [entries |-> es, queue |-> r.rest, applied |-> log,
                       fatal |-> NoFatal, inside |-> st.inside]

\* a sync that takes one message only (`if let` for `while let`)
SyncLoop_once(st, dbg) ==
    IF st.fatal # NoFatal \/ st.queue = <<>> THEN st ELSE SyncStep(st, dbg)

\* Pool::sync_refcounts: `while let Some(mes) = self.rx.recv()`; a panic ends it
RECURSIVE SyncLoop(_, _)
SyncLoop(st, dbg) ==
    IF st.fatal # NoFatal \/ st.queue = <<>> THEN st ELSE SyncLoop(SyncStep(st, dbg), dbg)

\* Pool::sync_refcounts_and_invalidate
sync_refcounts_and_invalidate(es, q, ins, dbg) ==
    SyncLoop([entries |-> es, queue |-> q, applied |-> <<>>, fatal |-> NoFatal,
              inside |-> ins], dbg)

(***************************************************************************)
(* Handle-based accessors.                                                 *)
(***************************************************************************)
\* a find_empty_slot that returns the last index whose data is None
find_empty_slot_last(es) ==
    LET free == {i \in 0..(Len(es) - 1) : EntryAt(es, i).data = NoItem}
    IN  IF free = {} THEN {} ELSE {CHOOSE i \in free : \A j \in free : j <= i}

\* Pool::find_empty_slot: the first index whose data is None, as the set {i} or {}
find_empty_slot(es) ==
    LET free == {i \in 0..(Len(es) - 1) : EntryAt(es, i).data = NoItem}
    IN  IF free = {} THEN {} ELSE {CHOOSE i \in free : \A j \in free : i <= j}

\* a reuse that keeps the slot's generation
reuse_gen_same(g, dbg) == [gen |-> g, fatal |-> NoFatal]

\* a reuse that starts the slot's generations again
reuse_gen_reset(g, dbg) == [gen |-> 1, fatal |-> NoFatal]

\* `Gen::new(entry.gen.get() + 1).expect("Generation overflow!")`
reuse_gen(g, dbg) ==
    IF IsGenMax(g)
    THEN [gen |-> g,
          fatal |-> IF dbg THEN "attempt to add with overflow" ELSE "Generation overflow!"]
    ELSE [gen |-> g + 1, fatal |-> NoFatal]

\* Pool::add: [entries, handle, fatal]
add(es, item, dbg) ==
    LET found == find_empty_slot(es)
    IN  IF found # {}
        THEN LET i == CHOOSE i \in found : TRUE
                 g == reuse_gen(EntryAt(es, i).gen, dbg)
             IN  [entries |-> [es EXCEPT ![i + 1].data = item, ![i + 1].gen = g.gen],
                  handle |-> Handle(i, g.gen),
                  fatal |-> g.fatal]
        ELSE [entries |-> Append(es, PoolEntry(item, 1, 1)),
              handle |-> Handle(Len(es), 1),
              fatal |-> NoFatal]

\* a get that does not look at the generation
get_any_gen(es, weak) ==
    IF ~InRange(es, weak.slot) THEN NoItem ELSE EntryAt(es, weak.slot).data

\* Pool::get for a weak handle of this pool: the item, or NoItem for None
get(es, weak) ==
    IF ~InRange(es, weak.slot) THEN NoItem
    ELSE IF EntryAt(es, weak.slot).gen = weak.gen
    THEN EntryAt(es, weak.slot).data
    ELSE NoItem

\* impl Index<&Handle<T>> for Pool<T>: [item, fatal]
index(es, handle, dbg) ==
    IF ~InRange(es, handle.slot)
    THEN [item |-> NoItem, fatal |-> "index out of bounds"]
    ELSE IF dbg /\ ~(EntryAt(es, handle.slot).ref_count > 0)
    THEN [item |-> NoItem, fatal |-> "assertion failed: entry.ref_count > 0"]
    ELSE IF EntryAt(es, handle.slot).data = NoItem
    THEN [item |-> NoItem,
          fatal |-> "dropped entry found while there's strong at least one handle!"]
    ELSE [item |-> EntryAt(es, handle.slot).data, fatal |-> NoFatal]

(***************************************************************************)
(* Slot-based accessors.                                                   *)
(***************************************************************************)
\* an upgrade without the test of the reference count
upgrade_no_count(es, weak) ==
    IF weak.slot > Len(es) THEN [ret |-> RetNone, fatal |-> NoFatal]
    ELSE IF ~InRange(es, weak.slot) THEN [ret |-> RetNone, fatal |-> "index out of bounds"]
    ELSE IF EntryAt(es, weak.slot).gen = weak.gen
    THEN [ret |-> RetHandle(Handle(weak.slot, weak.gen)), fatal |-> NoFatal]
    ELSE [ret |-> RetNone, fatal |-> NoFatal]

\* Pool::upgrade: [ret, fatal]
upgrade(es, weak) ==
    IF weak.slot > Len(es) THEN [ret |-> RetNone, fatal |-> NoFatal]
    ELSE IF ~InRange(es, weak.slot) THEN [ret |-> RetNone, fatal |-> "index out of bounds"]
    ELSE IF EntryAt(es, weak.slot).ref_count = 0 THEN [ret |-> RetNone, fatal |-> NoFatal]
    ELSE IF EntryAt(es, weak.slot).gen = weak.gen
    THEN [ret |-> RetHandle(Handle(weak.slot, weak.gen)), fatal |-> NoFatal]
    ELSE [ret |-> RetNone, fatal |-> NoFatal]

\* a get2_mut_by_slot without the assert_ne!
get2_mut_by_slot_alias(es, s0, s1) ==
    IF ~InRange(es, s0) THEN [ret |-> RetNone, fatal |-> NoFatal]
    ELSE IF ~InRange(es, s1) THEN [ret |-> RetNone, fatal |-> NoFatal]
    ELSE IF EntryAt(es, s0).data = NoItem THEN [ret |-> RetNone, fatal |-> NoFatal]
    ELSE IF EntryAt(es, s1).data = NoItem THEN [ret |-> RetNone, fatal |-> NoFatal]
    ELSE [ret |-> RetPair(EntryAt(es, s0).data, EntryAt(es, s1).data), fatal |-> NoFatal]

\* Pool::get2_mut_by_slot: [ret, fatal]
get2_mut_by_slot(es, s0, s1) ==
    IF s0 = s1
    THEN [ret |-> RetUnit, fatal |-> "assertion failed: (left != right)"]
    ELSE IF ~InRange(es, s0) THEN [ret |-> RetNone, fatal |-> NoFatal]
    ELSE IF ~InRange(es, s1) THEN [ret |-> RetNone, fatal |-> NoFatal]
    ELSE IF EntryAt(es, s0).data = NoItem THEN [ret |-> RetNone, fatal |-> NoFatal]
    ELSE IF EntryAt(es, s1).data = NoItem THEN [ret |-> RetNone, fatal |-> NoFatal]
    ELSE [ret |-> RetPair(EntryAt(es, s0).data, EntryAt(es, s1).data), fatal |-> NoFatal]

(***************************************************************************)
(* The state machine: one action per operation of the public interface.    *)
(***************************************************************************)
\* Pool::with_capacity: no entry, an empty queue; the build profile is fixed for the run
Init ==
    /\ entries = <<>>
    /\ queue = <<>>
    /\ handles = EmptyBag
    /\ weaks = {}
    /\ debug \in BOOLEAN
    /\ fatal = NoFatal
    /\ op = "with_capacity"
    /\ resync = FALSE
    /\ ret = RetUnit
    /\ applied = <<>>
    /\ allocs = <<>>
    /\ sent = 0
    /\ inside = <<>>

\* the strong Handles alive, as a set
Live == BagToSet(handles)

\* bookkeeping of a call: which operation ran, and what it returned
Called(name, r) ==
    /\ op' = name
    /\ resync' = (name = "sync" /\ op = "sync")
    /\ ret' = r

\* pool.add(item): the caller keeps the Handle returned
Add(item) ==
    /\ fatal = NoFatal
    /\ Len(allocs) < MaxAdds
    /\ BagCardinality(handles) < MaxHandles
    /\ LET r == add(entries, item, debug)
       IN  /\ entries' = r.entries
           /\ fatal' = r.fatal
           /\ IF r.fatal = NoFatal
              THEN /\ handles' = handles (+) SetToBag({r.handle})
                   /\ allocs' = Append(allocs, [slot |-> r.handle.slot,
                                                gen |-> r.handle.gen,
                                                item |-> item])
                   /\ Called("add", RetHandle(r.handle))
              ELSE /\ UNCHANGED <<handles, allocs>>
                   /\ Called("add", RetUnit)
    /\ applied' = <<>>
    /\ inside' = IF Len(entries') > Len(entries) THEN Append(inside, <<>>) ELSE inside
    /\ UNCHANGED <<queue, weaks, debug, sent>>

\* handle.clone(): the derived Clone copies slot and gen and clones the sender
HandleClone(h) ==
    /\ fatal = NoFatal
    /\ h \in Live
    /\ BagCardinality(handles) < MaxHandles
    /\ handles' = handles (+) SetToBag({h})
    /\ Called("clone", RetHandle(h))
    /\ applied' = <<>>
    /\ UNCHANGED <<entries, queue, weaks, debug, fatal, allocs, sent, inside>>

\* a drop that clears the item at once
HandleDrop_eager(h) ==
    /\ fatal = NoFatal
    /\ h \in Live
    /\ Len(queue) < MaxQueue
    /\ sent < MaxSends
    /\ sent' = sent + 1
    /\ handles' = handles (-) SetToBag({h})
    /\ queue' = send(queue, Message("Drop", h.slot))
    /\ entries' = [entries EXCEPT ![h.slot + 1].data = NoItem]
    /\ Called("drop", RetUnit)
    /\ applied' = <<>>
    /\ UNCHANGED <<weaks, debug, fatal, allocs, inside>>

\* drop(handle): impl Drop for Handle sends Message::Drop(slot)
HandleDrop(h) ==
    /\ fatal = NoFatal
    /\ h \in Live
    /\ Len(queue) < MaxQueue
    /\ sent < MaxSends
    /\ sent' = sent + 1
    /\ handles' = handles (-) SetToBag({h})
    /\ queue' = send(queue, Message("Drop", h.slot))
    /\ Called("drop", RetUnit)
    /\ applied' = <<>>
    /\ UNCHANGED <<entries, weaks, debug, fatal, allocs, inside>>

\* handle.downgrade(), and WeakHandle::from(handle): the Handle is taken by value and
\* dropped when the function returns
Downgrade(h) ==
    /\ fatal = NoFatal
    /\ h \in Live
    /\ Len(queue) < MaxQueue
    /\ sent < MaxSends
    /\ sent' = sent + 1
    /\ handles' = handles (-) SetToBag({h})
    /\ queue' = send(queue, Message("Drop", h.slot))
    /\ weaks' = weaks \cup {WeakHandle(h.slot, h.gen)}
    /\ Called("downgrade", RetWeak(WeakHandle(h.slot, h.gen)))
    /\ applied' = <<>>
    /\ UNCHANGED <<entries, debug, fatal, allocs, inside>>

\* handle.to_downgraded(): self.clone().downgrade(); the clone is dropped in downgrade
ToDowngraded(h) ==
    /\ fatal = NoFatal
    /\ h \in Live
    /\ Len(queue) < MaxQueue
    /\ sent < MaxSends
    /\ sent' = sent + 1
    /\ queue' = send(queue, Message("Drop", h.slot))
    /\ weaks' = weaks \cup {WeakHandle(h.slot, h.gen)}
    /\ Called("to_downgraded", RetWeak(WeakHandle(h.slot, h.gen)))
    /\ applied' = <<>>
    /\ UNCHANGED <<entries, handles, debug, fatal, allocs, inside>>

\* pool.upgrade(&weak): the caller keeps the Handle when one is returned
Upgrade(w) ==
    /\ fatal = NoFatal
    /\ w \in weaks
    /\ BagCardinality(handles) < MaxHandles
    /\ LET r == upgrade(entries, w)
       IN  /\ fatal' = r.fatal
           /\ handles' = IF r.ret.tag = "Handle"
                         THEN handles (+) SetToBag({Handle(r.ret.slot, r.ret.gen)})
                         ELSE handles
           /\ Called("upgrade", r.ret)
    /\ applied' = <<>>
    /\ UNCHANGED <<entries, queue, weaks, debug, allocs, sent, inside>>

\* pool[&handle]
Index(h) ==
    /\ fatal = NoFatal
    /\ h \in Live
    /\ LET r == index(entries, h, debug)
       IN  /\ fatal' = r.fatal
           /\ Called("index", IF r.fatal = NoFatal THEN RetItem(r.item) ELSE RetUnit)
    /\ applied' = <<>>
    /\ UNCHANGED <<entries, queue, handles, weaks, debug, allocs, sent, inside>>

\* the number of Handles that the items of the pool own
RECURSIVE OwnedUpTo(_, _)
OwnedUpTo(ins, n) == IF n = 0 THEN 0 ELSE OwnedUpTo(ins, n - 1) + Len(ins[n])
Owned(ins) == OwnedUpTo(ins, Len(ins))

\* pool.sync_refcounts_and_invalidate()
Sync ==
    /\ fatal = NoFatal
    /\ LET r == sync_refcounts_and_invalidate(entries, queue, inside, debug)
       IN  /\ entries' = r.entries
           /\ queue' = r.queue
           /\ applied' = r.applied
           /\ fatal' = r.fatal
           /\ inside' = r.inside
           /\ sent' = sent + (Owned(inside) - Owned(r.inside))
    /\ Called("sync", RetUnit)
    /\ UNCHANGED <<handles, weaks, debug, allocs>>

\* the items handed to add are all different: the k-th add stores item k
FreshItems == {Len(allocs) + 1}

\* every handle the caller can hold within the bounds
AllHandles == {Handle(s, g) : s \in 0..(MaxAdds - 1), g \in 1..MaxAdds}

Next ==
    \/ \E item \in FreshItems : Add(item)
    \/ \E h \in AllHandles : HandleClone(h)
    \/ \E h \in AllHandles : HandleDrop(h)
    \/ \E h \in AllHandles : Downgrade(h)
    \/ \E h \in AllHandles : ToDowngraded(h)
    \/ \E w \in AllHandles : Upgrade(w)
    \/ \E h \in AllHandles : Index(h)
    \/ Sync

Spec == Init /\ [][Next]_vars

\* pool.add(item) for an item that owns the Handle h: h moves from the caller into the item
AddHolding(item, h) ==
    /\ fatal = NoFatal
    /\ Len(allocs) < MaxAdds
    /\ h \in Live
    /\ LET r == add(entries, item, debug)
           i == r.handle.slot
       IN  /\ entries' = r.entries
           /\ fatal' = r.fatal
           /\ inside' = IF Len(r.entries) > Len(entries)
                         THEN Append(inside, <<h>>)
                         ELSE [inside EXCEPT ![i + 1] = <<h>>]
           /\ IF r.fatal = NoFatal
              THEN /\ handles' = (handles (-) SetToBag({h})) (+) SetToBag({r.handle})
                   /\ allocs' = Append(allocs, [slot |-> r.handle.slot,
                                                gen |-> r.handle.gen,
                                                item |-> item])
                   /\ Called("add", RetHandle(r.handle))
              ELSE /\ handles' = handles (-) SetToBag({h})
                   /\ allocs' = allocs
                   /\ Called("add", RetUnit)
    /\ applied' = <<>>
    /\ UNCHANGED <<queue, weaks, debug, sent>>

\* pool.invalidate_unreferenced(slot), called by the owner of the pool
InvalidateUnreferenced(slot) ==
    /\ fatal = NoFatal
    /\ LET r == invalidate_unreferenced(entries, slot)
       IN  /\ entries' = r.entries
           /\ fatal' = r.fatal
           /\ queue' = IF r.cleared THEN drop_all(queue, inside[slot + 1]) ELSE queue
           /\ inside' = IF r.cleared THEN [inside EXCEPT ![slot + 1] = <<>>] ELSE inside
           /\ sent' = sent + (Owned(inside) - Owned(inside'))
           /\ Called("invalidate_unreferenced",
                     IF r.fatal = NoFatal THEN RetBool(r.cleared) ELSE RetUnit)
    /\ applied' = <<>>
    /\ UNCHANGED <<handles, weaks, debug, allocs>>

\* pool.get2_mut_by_slot(s0, s1)
Get2MutBySlot(s0, s1) ==
    /\ fatal = NoFatal
    /\ LET r == get2_mut_by_slot(entries, s0, s1)
       IN  /\ fatal' = r.fatal
           /\ Called("get2_mut_by_slot", r.ret)
    /\ applied' = <<>>
    /\ UNCHANGED <<entries, queue, handles, weaks, debug, allocs, sent, inside>>

\* every slot the caller can name within the bounds, in range or not
AllSlots == 0..(MaxAdds - 1)

\* the operations on Handles, with sync and invalidate_unreferenced of the owner of the pool
NextSlots ==
    \/ \E item \in FreshItems : Add(item)
    \/ \E h \in AllHandles : HandleClone(h)
    \/ \E h \in AllHandles : HandleDrop(h)
    \/ \E h \in AllHandles : Downgrade(h)
    \/ Sync
    \/ \E s \in AllSlots : InvalidateUnreferenced(s)

SpecSlots == Init /\ [][NextSlots]_vars

\* access to two entries by slot: add, drop, sync and get2_mut_by_slot
NextGet2 ==
    \/ \E item \in FreshItems : Add(item)
    \/ \E h \in AllHandles : HandleDrop(h)
    \/ Sync
    \/ \E s0, s1 \in AllSlots : Get2MutBySlot(s0, s1)

SpecGet2 == Init /\ [][NextGet2]_vars

\* items that own Handles of other items: add, drop and sync
NextOwning ==
    \/ \E item \in FreshItems : Add(item)
    \/ \E item \in FreshItems : \E h \in AllHandles : AddHolding(item, h)
    \/ \E h \in AllHandles : HandleDrop(h)
    \/ Sync

SpecOwning == Init /\ [][NextOwning]_vars

\* weak handles that are upgraded: add, downgrade, upgrade, drop and sync
NextUpgrade ==
    \/ \E item \in FreshItems : Add(item)
    \/ \E h \in AllHandles : Downgrade(h)
    \/ \E w \in AllHandles : Upgrade(w)
    \/ \E h \in AllHandles : HandleDrop(h)
    \/ Sync

SpecUpgrade == Init /\ [][NextUpgrade]_vars

\* the operations of the reference counting alone: add, clone, drop and sync
NextCore ==
    \/ \E item \in FreshItems : Add(item)
    \/ \E h \in AllHandles : HandleClone(h)
    \/ \E h \in AllHandles : HandleDrop(h)
    \/ Sync

SpecCore == Init /\ [][NextCore]_vars

(***************************************************************************)
(* Notions the properties below are stated with.                           *)
(***************************************************************************)
\* the slots of the table
Slots == 0..(Len(entries) - 1)

\* the sum of ref_count over the entries es[1..n] whose item is present
RECURSIVE SumLiveRefCounts(_, _)
SumLiveRefCounts(es, n) ==
    IF n = 0 THEN 0
    ELSE SumLiveRefCounts(es, n - 1) + (IF es[n].data # NoItem THEN es[n].ref_count ELSE 0)

\* the positions in allocs of the allocations into a slot
AllocsInto(slot) == {i \in 1..Len(allocs) : allocs[i].slot = slot}

\* the position in allocs of the latest allocation into a slot that has one
LastAllocInto(slot) == CHOOSE i \in AllocsInto(slot) : \A j \in AllocsInto(slot) : j <= i

\* a slot that was allocated, cleared and allocated again
Reused(slot) == Cardinality(AllocsInto(slot)) >= 2

\* whether the item of the slot is present in the table es
Present(es, s) == EntryAt(es, s).data # NoItem

\* whether a Handle of the slot is owned by the caller (the bag hs) or by an item that is
\* present (ins[t + 1] are the Handles the item of slot t owns)
Held(es, hs, ins, s) ==
    \/ \E h \in BagToSet(hs) : h.slot = s
    \/ \E t \in 0..(Len(es) - 1) :
         /\ Present(es, t)
         /\ \E i \in 1..Len(ins[t + 1]) : ins[t + 1][i].slot = s

\* how many events of the kind the queue q holds for the slot
CountOf(q, kind, s) == Cardinality({i \in 1..Len(q) : q[i] = Message(kind, s)})

\* the elements of a sequence
Range(q) == {q[i] : i \in 1..Len(q)}

\* the messages among the entries log[1..n] of a sync's log, in order
RECURSIVE MessagesOf(_, _)
MessagesOf(log, n) ==
    IF n = 0 THEN <<>>
    ELSE IF log[n].kind = "Clear" THEN MessagesOf(log, n - 1)
    ELSE Append(MessagesOf(log, n - 1), Message(log[n].kind, log[n].slot))

\* whether a sync with this log took the slot's reference count to zero by a Drop and
\* cleared the slot's item right then
ClearedAtZero(log, slot) ==
    \E i \in 1..(Len(log) - 1) :
        log[i] = Applied("Drop", slot, 0) /\ log[i + 1] = Applied("Clear", slot, 0)

(***************************************************************************)
(* C1.  Right after a sync, the sum of ref_count over the entries whose    *)
(* item is present equals the number of strong Handles outstanding, after  *)
(* any sequence of add, Handle clone, Handle drop and sync.                *)
(* Stated as the claim has it; the code does not satisfy it: the derived   *)
(* Clone of Handle sends no Message::New.                                  *)
(***************************************************************************)
C1_RefCountsMatchHandles ==
    (op = "sync" /\ fatal = NoFatal)
        => SumLiveRefCounts(entries, Len(entries)) = BagCardinality(handles)

(***************************************************************************)
(* C2.  In every state, the entry of every outstanding strong Handle holds *)
(* its item, so pool[h] never fails with "dropped entry found ...".        *)
(* Stated as the claim has it; the code does not satisfy it: a Handle that *)
(* was cloned, upgraded or made by to_downgraded is not counted.           *)
(***************************************************************************)
C2_StrongHandleItemPresent ==
    /\ fatal # "dropped entry found while there's strong at least one handle!"
    /\ fatal = NoFatal =>
         \A h \in Live : InRange(entries, h.slot) /\ EntryAt(entries, h.slot).data # NoItem

(***************************************************************************)
(* C3.  Once a slot was cleared by sync and allocated again, get with a    *)
(* WeakHandle of an earlier occupant of the slot returns None in every     *)
(* later state, and get with the WeakHandle just downgraded from a Handle  *)
(* of the new occupant returns the item the later add stored.              *)
(***************************************************************************)
C3_StaleWeakFailsNewWeakResolves ==
    /\ \A w \in weaks :
         (Reused(w.slot) /\ w.gen # allocs[LastAllocInto(w.slot)].gen)
             => get(entries, w) = NoItem
    /\ (/\ op \in {"downgrade", "to_downgraded"}
        /\ Reused(ret.slot)
        /\ ret.gen = allocs[LastAllocInto(ret.slot)].gen)
           => get(entries, WeakHandle(ret.slot, ret.gen))
                  = allocs[LastAllocInto(ret.slot)].item

\* slot 0 was reused; a weak handle of its first occupant is still around, and a weak
\* handle was just downgraded from the Handle of its second occupant
C3_Witness ==
    /\ Reused(0)
    /\ WeakHandle(0, 1) \in weaks
    /\ get(entries, WeakHandle(0, 1)) = NoItem
    /\ op = "downgrade"
    /\ ret = RetWeak(WeakHandle(0, 2))
    /\ get(entries, WeakHandle(0, 2)) = 2

(***************************************************************************)
(* C4.  Invalidation is never eager.  A weak handle that resolves stops    *)
(* resolving only in a sync that cleared its slot with the reference count *)
(* at zero; an item goes from present to absent only in such a sync; and   *)
(* dropping a Handle (drop, downgrade, to_downgraded) changes no entry, so *)
(* the item is still there between the last drop and the next sync.        *)
(***************************************************************************)
C4_NoEagerInvalidation ==
    [][ /\ \A w \in weaks :
             (get(entries, w) # NoItem /\ get(entries', w) = NoItem)
                 => (op' = "sync" /\ ClearedAtZero(applied', w.slot))
        /\ \A s \in Slots :
             (EntryAt(entries, s).data # NoItem /\ EntryAt(entries', s).data = NoItem)
                 => (op' = "sync" /\ ClearedAtZero(applied', s))
        /\ op' \in {"drop", "downgrade", "to_downgraded", "clone"} => entries' = entries
      ]_vars

\* the last strong Handle was just dropped, its Drop is waiting in the queue, and a weak
\* handle of the item still resolves
C4_Witness ==
    /\ op = "drop"
    /\ handles = EmptyBag
    /\ queue # <<>>
    /\ queue[Len(queue)] = Message("Drop", 0)
    /\ WeakHandle(0, 1) \in weaks
    /\ get(entries, WeakHandle(0, 1)) = 1

(***************************************************************************)
(* C5.  The allocations into one slot receive strictly increasing          *)
(* generations, and the generation stored in a slot is that of its latest  *)
(* allocation: it never decreases, and never stays the same across a reuse.*)
(***************************************************************************)
C5_SlotGenerationsIncrease ==
    /\ \A i, j \in 1..Len(allocs) :
         (i < j /\ allocs[i].slot = allocs[j].slot) => allocs[i].gen < allocs[j].gen
    /\ \A s \in Slots :
         AllocsInto(s) # {} /\ EntryAt(entries, s).gen = allocs[LastAllocInto(s)].gen

\* slot 0 was allocated twice and holds its second occupant
C5_Witness ==
    /\ Len(allocs) = 2
    /\ allocs[1].slot = 0
    /\ allocs[2].slot = 0
    /\ EntryAt(entries, 0).data = 2

C7_UpgradeChecksGenAndCount ==
    [][ \A w \in weaks :
          Upgrade(w) =>
            /\ entries' = entries
            /\ queue' = queue
            /\ ret' = IF /\ EntryAt(entries, w.slot).gen = w.gen
                         /\ EntryAt(entries, w.slot).ref_count > 0
                      THEN RetHandle(Handle(w.slot, w.gen))
                      ELSE RetNone
      ]_vars

\* upgrade has just returned None although every weak handle there is carries the
\* generation stored in its slot: the reference count of the slot is 0
C7_Witness ==
    /\ op = "upgrade"
    /\ ret = RetNone
    /\ weaks # {}
    /\ \A w \in weaks :
         /\ EntryAt(entries, w.slot).gen = w.gen
         /\ EntryAt(entries, w.slot).ref_count = 0

(***************************************************************************)
(* C8.  As the claim has it: upgrade hands out no strong Handle for an     *)
(* occupant all of whose strong Handles were already dropped (their Drop   *)
(* messages still in the queue); so a Handle that upgrade returns is never *)
(* the only strong Handle of its slot and generation.                      *)
(* The code does not satisfy it: upgrade reads the stored ref_count, which *)
(* the queued Drop messages have not reached yet.                          *)
(***************************************************************************)
C8_NoUpgradeWhilePendingInvalidation ==
    (op = "upgrade" /\ ret.tag = "Handle")
        => CopiesIn(Handle(ret.slot, ret.gen), handles) >= 2

(***************************************************************************)
(* C9.  A sync called right after a sync, with no other operation between  *)
(* them, changes no entry and leaves the queue empty.                      *)
(***************************************************************************)
C9_SyncIdempotent ==
    [][ (op = "sync" /\ fatal = NoFatal /\ Sync)
            => /\ entries' = entries
               /\ queue = <<>>
               /\ queue' = <<>>
               /\ applied' = <<>>
      ]_vars

\* a second sync in a row has run on a table that holds an item, after a first sync that
\* had messages to apply
C9_Witness ==
    /\ resync
    /\ op = "sync"
    /\ sent > 0
    /\ \E s \in Slots : EntryAt(entries, s).data # NoItem
    /\ \E s \in Slots : EntryAt(entries, s).data = NoItem

(***************************************************************************)
(* C10.  A sync applies the queued messages in the order they were sent:   *)
(* the messages it applied are a prefix of the queue, in order, and what   *)
(* it leaves in the queue is the rest (nothing, unless a panic ended it,   *)
(* which takes one more message).  It clears an item exactly when a Drop   *)
(* takes the slot's ref_count to 0, and right then, before it applies the  *)
(* next message; and the table it leaves agrees with that log.             *)
(***************************************************************************)
C10_SyncAppliesInFifoOrder ==
    [][ Sync =>
          LET log == applied'
              done == MessagesOf(log, Len(log))
              taken == Len(done) + (IF fatal' = NoFatal THEN 0 ELSE 1)
              PresentBefore(i, s) ==
                  /\ EntryAt(entries, s).data # NoItem
                  /\ \A k \in 1..(i - 1) : log[k] # Applied("Clear", s, 0)
          IN  /\ taken <= Len(queue)
              /\ done = SubSeq(queue, 1, Len(done))
              /\ queue' = SubSeq(queue, taken + 1, Len(queue))
              /\ fatal' = NoFatal => queue' = <<>>
              /\ \A i \in 1..Len(log) :
                   log[i].kind = "Clear"
                       => (i > 1 /\ log[i - 1] = Applied("Drop", log[i].slot, 0))
              /\ \A i \in 1..Len(log) :
                   (log[i].kind = "Drop" /\ log[i].rc = 0 /\ PresentBefore(i, log[i].slot))
                       => (i < Len(log) /\ log[i + 1] = Applied("Clear", log[i].slot, 0))
              /\ \A s \in Slots :
                   /\ EntryAt(entries', s).data
                          = IF \E i \in 1..Len(log) : log[i] = Applied("Clear", s, 0)
                            THEN NoItem
                            ELSE EntryAt(entries, s).data
                   /\ LET on == {i \in 1..Len(log) : log[i].slot = s /\ log[i].kind # "Clear"}
                      IN  EntryAt(entries', s).ref_count
                              = IF on = {}
                                THEN EntryAt(entries, s).ref_count
                                ELSE log[CHOOSE i \in on : \A k \in on : k <= i].rc
      ]_vars

\* a sync has applied the Drop of slot 1 and then the Drop of slot 0, each from its own
\* Handle, and cleared slot 1 before it applied the Drop of slot 0
C10_Witness ==
    /\ op = "sync"
    /\ fatal = NoFatal
    /\ applied = << Applied("Drop", 1, 0), Applied("Clear", 1, 0),
                    Applied("Drop", 0, 0), Applied("Clear", 0, 0) >>

(***************************************************************************)
(* C11.  add stores the item in the lowest-index entry whose item is       *)
(* absent, and appends a new entry at index len only when every entry      *)
(* holds an item; every other entry, and so every entry whose item is      *)
(* present, is left as it was.                                             *)
(***************************************************************************)
C11_AddUsesLowestFreeSlot ==
    [][ \A item \in FreshItems :
          (Add(item) /\ fatal' = NoFatal) =>
            LET free == {s \in Slots : EntryAt(entries, s).data = NoItem}
                slot == ret'.slot
            IN  /\ slot = IF free = {}
                          THEN Len(entries)
                          ELSE CHOOSE s \in free : \A t \in free : s <= t
                /\ Len(entries') = IF free = {} THEN Len(entries) + 1 ELSE Len(entries)
                /\ EntryAt(entries', slot).data = item
                /\ \A s \in Slots \ {slot} : EntryAt(entries', s) = EntryAt(entries, s)
                /\ \A s \in Slots :
                     EntryAt(entries, s).data # NoItem
                         => EntryAt(entries', s).data = EntryAt(entries, s).data
      ]_vars

\* two adds filled slots 0 and 1, both were cleared, and the third add took slot 0 and
\* left slot 1 free
C11_Witness ==
    /\ op = "add"
    /\ Len(allocs) = 3
    /\ allocs[1].slot = 0
    /\ allocs[2].slot = 1
    /\ ret.slot = 0
    /\ Len(entries) = 2
    /\ EntryAt(entries, 0).data = 3
    /\ EntryAt(entries, 1).data = NoItem

(***************************************************************************)
(* C12.  Cloning a strong Handle enqueues exactly one New event for the    *)
(* handle's slot (so that the next sync raises the slot's ref_count by     *)
(* one).                                                                   *)
(***************************************************************************)
C12_CloneEnqueuesNew ==
    [][ \A h \in AllHandles :
          HandleClone(h) => queue' = send(queue, Message("New", h.slot))
      ]_vars

(***************************************************************************)
(* C13.  Dropping a strong Handle appends exactly one Drop(slot) to the    *)
(* tail of the queue and changes nothing else of the pool; clone, drop and *)
(* downgrade leave every entry unchanged; the entries change only in add,  *)
(* sync and invalidate_unreferenced.                                       *)
(***************************************************************************)
C13_DropAppendsOneDropOnly ==
    [][ /\ op' = "drop" =>
              \E h \in Live :
                  /\ handles' = handles (-) SetToBag({h})
                  /\ queue' = queue \o <<Message("Drop", h.slot)>>
                  /\ entries' = entries
                  /\ weaks' = weaks
                  /\ inside' = inside
                  /\ fatal' = fatal
        /\ op' \in {"clone", "drop", "downgrade"} => entries' = entries
        /\ entries' # entries => op' \in {"add", "sync", "invalidate_unreferenced"}
      ]_vars

\* a second Handle was dropped while a Drop of another slot was already queued
C13_Witness ==
    /\ op = "drop"
    /\ queue = <<Message("Drop", 0), Message("Drop", 1)>>
    /\ Len(entries) = 2
    /\ \A s \in Slots : EntryAt(entries, s).data # NoItem

(***************************************************************************)
(* C14.  get2_mut_by_slot(s0, s1) with s0 = s1 fails its precondition and  *)
(* returns nothing; with s0 # s1 it returns the two items when both slots  *)
(* are in range and both items are present, and None otherwise.            *)
(***************************************************************************)
C14_Get2RejectsEqualSlots ==
    [][ \A s0, s1 \in AllSlots :
          Get2MutBySlot(s0, s1) =>
            LET both == /\ InRange(entries, s0)
                        /\ InRange(entries, s1)
                        /\ EntryAt(entries, s0).data # NoItem
                        /\ EntryAt(entries, s1).data # NoItem
            IN  /\ s0 = s1 => (fatal' # NoFatal /\ ret'.tag # "Pair")
                /\ s0 # s1 =>
                     /\ fatal' = NoFatal
                     /\ ret' = IF both
                               THEN RetPair(EntryAt(entries, s0).data, EntryAt(entries, s1).data)
                               ELSE RetNone
                /\ entries' = entries
      ]_vars

\* the call named one slot twice, a slot that holds an item, and was rejected
C14_Witness ==
    /\ op = "get2_mut_by_slot"
    /\ fatal # NoFatal
    /\ ret = RetUnit
    /\ Len(entries) >= 1
    /\ EntryAt(entries, 0).data # NoItem

(***************************************************************************)
(* C15.  Right after every add, the entry at the returned slot has         *)
(* ref_count 1, whether the entry was appended or a cleared entry was      *)
(* reused.                                                                 *)
(***************************************************************************)
C15_RefCountOneAfterAdd ==
    (op = "add" /\ fatal = NoFatal) => EntryAt(entries, ret.slot).ref_count = 1

(***************************************************************************)
(* C16.  Right after every sync, the item of an entry is present if and    *)
(* only if the entry's ref_count is not zero.                              *)
(***************************************************************************)
C16_PresentIffCounted ==
    (op = "sync" /\ fatal = NoFatal) =>
        \A s \in Slots :
            (EntryAt(entries, s).data # NoItem) <=> (EntryAt(entries, s).ref_count # 0)

(***************************************************************************)
(* C18.  No sync applies a Drop to an entry whose ref_count is 0: the      *)
(* subtraction neither panics nor wraps around to 65535.                   *)
(***************************************************************************)
C18_RefCountNeverUnderflows ==
    /\ fatal # "attempt to subtract with overflow"
    /\ \A i \in 1..Len(applied) :
         applied[i].kind = "Drop" => applied[i].rc # RefCountMax

(***************************************************************************)
(* C17.  sync_refcounts_and_invalidate returns with an empty queue, also   *)
(* when the items it clears own Handles: the Drop of an owned Handle is    *)
(* applied in the same call, so that after the call no item is left whose  *)
(* Handles are all gone (a chain of items, each owning the only Handle of  *)
(* the next, is released as a whole).                                      *)
(***************************************************************************)
C17_SyncDrainsAndReleasesChains ==
    [][ (/\ Sync
         /\ \E t \in Slots :
              /\ EntryAt(entries, t).data # NoItem
              /\ inside[t + 1] # <<>>
              /\ Message("Drop", t) \in Range(queue)
              /\ ~ \E h \in Live : h.slot = t)
        => /\ fatal' = NoFatal
           /\ queue' = <<>>
           /\ \A s \in Slots : Present(entries', s) => Held(entries', handles', inside', s)
      ]_vars

(***************************************************************************)
(* C19.  to_downgraded is neutral for the reference count: the events it   *)
(* leaves in the queue for the slot net to zero, so the next sync finds    *)
(* the slot's count as it would have been without the call.                *)
(***************************************************************************)
C19_ToDowngradedNeutral ==
    [][ \A h \in AllHandles :
          ToDowngraded(h) =>
              CountOf(queue', "New", h.slot) - CountOf(queue, "New", h.slot)
                  = CountOf(queue', "Drop", h.slot) - CountOf(queue, "Drop", h.slot)
      ]_vars

(***************************************************************************)
(* C20.  A Handle returned by upgrade counts as a strong reference: after  *)
(* a sync that runs while it is outstanding (the Handle the weak handle    *)
(* was taken from being dropped), the item is present and the slot's       *)
(* ref_count is at least 1.                                                *)
(***************************************************************************)
C20_UpgradedHandleIsCounted ==
    (op = "sync" /\ fatal = NoFatal) =>
        \A h \in Live :
            WeakHandle(h.slot, h.gen) \in weaks =>
                /\ Present(entries, h.slot)
                /\ EntryAt(entries, h.slot).gen = h.gen
                /\ EntryAt(entries, h.slot).ref_count >= 1

=============================================================================
